---- MODULE Spec2Model ----
(***************************************************************************)
(* A model of the royalty-advance API (main.py, salesforce_queries.py,     *)
(* advance_calculator.py).                                                 *)
(*                                                                         *)
(* Two request handlers are modelled, each as a state machine whose steps  *)
(* are cut at the handler's external calls:                                *)
(*   Spec        POST /api/royalty/active-deal  (get_royalty_advance_status*)
(*               with search_candidate_accounts, enrich_account_data and   *)
(*               filter_accounts_by_inputs)                                *)
(*   SpecAdvance POST /api/royalty/advance-amount                          *)
(*               (calculate_advance_from_earnings_csv with                 *)
(*               get_funding_config and calculate_advance)                 *)
(*                                                                         *)
(* Text is a sequence of one-character strings, so that lower(), strip(),  *)
(* normalize_text() and Python's "in" are computed as the code computes    *)
(* them.  Python's None is NoText for a text field and None for an atomic  *)
(* field (identifiers, dates, enumerations).                               *)
(***************************************************************************)
EXTENDS Integers, Sequences, FiniteSets, TLC

VARIABLES
    pc,          \* position of the active-deal handler
    access_key,  \* the access-key header of the request
    data,        \* the DealStatusInput body
    queries,     \* search_candidate_accounts: the channel queries built
    qi,          \* index of the next query of the search loop
    asked,       \* history: per channel queried, the status of its response
    hits,        \* history: how many stubs with an Id the 200-responses held
    seen,        \* history: per identifier, the first stub a 200-response held
    got,         \* history: per query, in order, what its response contributed
    alts,        \* history: the identifier orders other query orders lead to
    accounts,    \* the insertion-ordered dict of candidate stubs
    enriched,    \* enriched_accounts
    matched,     \* matched_accounts, the result of filter_accounts_by_inputs
    result,      \* the handler's outcome: HTTP status and response list
    apc,         \* position of the advance-amount handler
    areq,        \* the advance-amount request: key, uploaded file, store rows
    aloc,        \* the advance-amount handler's local variables
    aresult      \* the advance-amount outcome: HTTP status and payload

dealVars == <<pc, access_key, data, queries, qi, asked, hits, seen, got, alts,
              accounts, enriched, matched, result>>
advVars == <<apc, areq, aloc, aresult>>
vars == <<pc, access_key, data, queries, qi, asked, hits, seen, got, alts,
          accounts, enriched, matched, result, apc, areq, aloc, aresult>>

-----------------------------------------------------------------------------
(* Bounds of the model *)

MaxHits == 2
MaxContacts == 2
MaxOpps == 2
MaxRows == 2

-----------------------------------------------------------------------------
(* Python values *)

None == "None"
NoText == <<"None">>

Truthy(s) == s # NoText /\ s # <<>>

SeqsUpTo(S, n) == UNION {[1..k -> S] : k \in 0..n}

-----------------------------------------------------------------------------
(* Text functions *)

LowerChar(c) ==
    CASE c = "A" -> "a"
      [] c = "B" -> "b"
      [] c = "C" -> "c"
      [] c = "L" -> "l"
      [] c = "O" -> "o"
      [] c = "Q" -> "q"
      [] c = "Z" -> "z"
      [] OTHER -> c

lower(s) == [i \in 1..Len(s) |-> LowerChar(s[i])]

IsSpace(c) == c \in {" ", "\t", "\n"}

RECURSIVE lstrip(_)
lstrip(s) ==
    IF s # <<>> /\ IsSpace(Head(s)) THEN lstrip(Tail(s)) ELSE s

RECURSIVE rstrip(_)
rstrip(s) ==
    IF s # <<>> /\ IsSpace(s[Len(s)]) THEN rstrip(SubSeq(s, 1, Len(s) - 1)) ELSE s

strip(s) == rstrip(lstrip(s))

\* Python's  a in b  for strings
IsSubstring(a, b) ==
    \E i \in 0..(Len(b) - Len(a)) : SubSeq(b, i + 1, i + Len(a)) = a

\* unicodedata.normalize('NFKD', c).encode('ASCII', 'ignore'): an accented
\* letter keeps its base letter, any other non-ASCII character is dropped.
\* A non-ASCII character is written as one element naming it.
AsciiFold(c) ==
    CASE c = "A-acute" -> <<"A">>
      [] c = "e-acute" -> <<"e">>
      [] c = "o-slash" -> <<>>
      [] OTHER -> <<c>>

RECURSIVE FoldText(_)
FoldText(s) ==
    IF s = <<>> THEN <<>> ELSE AsciiFold(Head(s)) \o FoldText(Tail(s))

IsSeparator(c) == c \in {" ", "-", ".", "'"}

KeepNotSeparator(c) == ~IsSeparator(c)

normalize_text(text) ==
    IF ~Truthy(text) THEN <<>>
    ELSE strip(lower(SelectSeq(FoldText(text), KeepNotSeparator)))

IsPhoneChar(c) == c \in {"0", "1", "2", "3", "4", "5", "6", "7", "8", "9", "+"}

normalize_phone(phone) ==
    IF ~Truthy(phone) THEN <<>> ELSE SelectSeq(phone, IsPhoneChar)

-----------------------------------------------------------------------------
(* The record store: what a search and a detail query can return *)

\* searchRecords entries: Account(Id, Name, ...).  The same account may come
\* back with different field values on different channels, and an entry may
\* lack an Id.
StubPool ==
    { [Id |-> "a1", Name |-> <<"A-acute", "l", "-", "B">>],
      [Id |-> "a1", Name |-> <<"A", "l">>],
      [Id |-> "a2", Name |-> <<"B", "o">>],
      [Id |-> None, Name |-> <<"B", "o">>] }

SearchResponses ==
    { [status |-> 200, records |-> r] : r \in SeqsUpTo(StubPool, MaxHits) }
      \cup { [status |-> 500, records |-> <<>>] }

ContactPool ==
    { [Email |-> <<"a", "B">>, MobilePhone |-> NoText],
      [Email |-> NoText, MobilePhone |-> <<"5", " ">>],
      [Email |-> NoText, MobilePhone |-> NoText] }

OppPool ==
    { [Id |-> "o1", Status_of_Deal__c |-> "Funded", Funding_Date__c |-> "d1",
       Type |-> "Assignment"],
      [Id |-> "o2", Status_of_Deal__c |-> "Funded", Funding_Date__c |-> "d2",
       Type |-> "Re-Assignment"],
      [Id |-> "o3", Status_of_Deal__c |-> "funded", Funding_Date__c |-> "d3",
       Type |-> "Assignment"] }

\* The rows the detail query of enrich_account_data can return for an Id: the
\* sub-lists Contacts and Opportunities are the "records" of the sub-queries,
\* empty when the sub-query result is null.
DetailRows(account_id) ==
    IF account_id = "a1"
    THEN { [Id |-> "a1", Name |-> <<"A-acute", "l", "-", "B">>,
            Payors_Funded_Text__c |-> <<"C", "q">>,
            Marketing_Status__pc |-> "DNM - Delinquency",
            Contacts |-> c,
            Opportunities |-> <<CHOOSE o \in OppPool : o.Id = "o1">>]
           : c \in SeqsUpTo(ContactPool, MaxContacts) }
    ELSE { [Id |-> "a2", Name |-> <<"B", "o">>,
            Payors_Funded_Text__c |-> NoText,
            Marketing_Status__pc |-> "Active",
            Contacts |-> <<CHOOSE c \in ContactPool : c.MobilePhone # NoText>>,
            Opportunities |-> o]
           : o \in SeqsUpTo(OppPool, MaxOpps) }

-----------------------------------------------------------------------------
(* The requests *)

API_KEY == "key"

NamePool == { <<>>, <<"A", "l">>, <<"z">> }
EmailPool == { NoText, <<>>, <<"B">>, <<"z">> }
CellPool == { NoText, <<" ", "5">>, <<"9">> }
PartnerPool == { NoText, <<"c", "-", "Q">> }

DealStatusInput ==
    [user_id : {"u7"}, full_name : NamePool, email_address : EmailPool,
     cell_number : CellPool, partner_name : PartnerPool]

-----------------------------------------------------------------------------
(* search_candidate_accounts *)

BuildQueries(name, email, cell) ==
    (IF Truthy(email) THEN <<[channel |-> "EMAIL", term |-> email]>> ELSE <<>>)
    \o (IF Truthy(cell)
        THEN <<[channel |-> "PHONE", term |-> normalize_phone(cell)]>> ELSE <<>>)
    \o (IF Truthy(name) THEN <<[channel |-> "NAME", term |-> name]>> ELSE <<>>)

HasId(accs, acc_id) == \E i \in DOMAIN accs : accs[i].Id = acc_id

\* Variant: the membership test of line 75 left out
RECURSIVE MergeRecords_NoDedup(_, _)
MergeRecords_NoDedup(accs, results) ==
    IF results = <<>> THEN accs
    ELSE MergeRecords_NoDedup(
             IF Head(results).Id # None THEN Append(accs, Head(results)) ELSE accs,
             Tail(results))

\* lines 73-76: the first stub seen for an Id is kept
RECURSIVE MergeRecords(_, _)
MergeRecords(accs, results) ==
    IF results = <<>> THEN accs
    ELSE LET acc == Head(results)
         IN  MergeRecords(
                 IF acc.Id # None /\ ~HasId(accs, acc.Id)
                 THEN Append(accs, acc) ELSE accs,
                 Tail(results))

\* lines 104-111: deduplicate_accounts(*account_lists); no handler calls it
RECURSIVE deduplicate_accounts(_)
deduplicate_accounts(account_lists) ==
    IF account_lists = <<>> THEN <<>>
    ELSE MergeRecords(
             deduplicate_accounts(SubSeq(account_lists, 1, Len(account_lists) - 1)),
             account_lists[Len(account_lists)])

\* Variant: a failed query empties the dict instead of being skipped
ProcessResponse_ClearOnFailure(accs, r) ==
    IF r.status # 200 THEN <<>> ELSE MergeRecords(accs, r.records)

\* lines 68-76: a response that is not a 200 is skipped
ProcessResponse(accs, r) ==
    IF r.status # 200 THEN accs ELSE MergeRecords(accs, r.records)

\* Variant: break instead of continue
NextQuery_Break(i, n, r) == IF r.status # 200 THEN n + 1 ELSE i + 1

\* line 70: continue with the next query
NextQuery(i, n, r) == i + 1

IdsOf(records) == { records[i].Id : i \in DOMAIN records } \ {None}

FirstWithId(records, acc_id) ==
    records[CHOOSE i \in DOMAIN records :
                /\ records[i].Id = acc_id
                /\ \A j \in 1..(i - 1) : records[j].Id # acc_id]

\* The history of the search: what the 200-responses received so far held
Record(h, r) ==
    IF r.status # 200 THEN h
    ELSE [id \in DOMAIN h \cup IdsOf(r.records) |->
            IF id \in DOMAIN h THEN h[id] ELSE FirstWithId(r.records, id)]

\* The history of the queries: the status of a response and the stubs it
\* adds to an empty dict (lines 72-76 on accounts = {})
Contribution(r) ==
    [status |-> r.status, records |-> ProcessResponse(<<>>, r)]

\* The orders in which the responses h could have been processed
ChannelOrders(h) ==
    { p \in [DOMAIN h -> DOMAIN h] :
        \A i, j \in DOMAIN h : p[i] = p[j] => i = j }

\* The dict lines 65-76 build when the first k responses of h are processed
\* in the given order
RECURSIVE Replay(_, _, _)
Replay(h, order, k) ==
    IF k = 0 THEN <<>>
    ELSE ProcessResponse(Replay(h, order, k - 1), h[order[k]])

\* Line 80 reads the Id of each stub, in the order of the dict
IdOrder(accs) == [i \in DOMAIN accs |-> accs[i].Id]

-----------------------------------------------------------------------------
(* filter_accounts_by_inputs *)

\* x or ""
OrEmpty(x) == IF Truthy(x) THEN x ELSE <<>>

\* line 117
NormalizedInputName(input_name) ==
    IF Truthy(input_name) THEN normalize_text(input_name) ELSE NoText

\* line 118
LoweredInputEmail(input_email) ==
    IF Truthy(input_email) THEN lower(input_email) ELSE <<>>

\* line 119
StrippedInputCell(input_cell) ==
    IF Truthy(input_cell) THEN strip(input_cell) ELSE <<>>

\* line 120
NormalizedInputPartner(input_partner) ==
    IF Truthy(input_partner) THEN normalize_text(input_partner) ELSE <<>>

\* line 130
name_match(acc, input_name) ==
    LET n == NormalizedInputName(input_name)
    IN  IF Truthy(n) THEN IsSubstring(n, normalize_text(acc.Name)) ELSE FALSE

\* line 131
email_match(acc, input_email) ==
    \E i \in DOMAIN acc.Contacts :
        IsSubstring(LoweredInputEmail(input_email),
                    lower(OrEmpty(acc.Contacts[i].Email)))

\* line 132
cell_match(acc, input_cell) ==
    \E i \in DOMAIN acc.Contacts :
        strip(OrEmpty(acc.Contacts[i].MobilePhone)) = StrippedInputCell(input_cell)

\* line 133
partner_match(acc, input_partner) ==
    LET p == NormalizedInputPartner(input_partner)
    IN  IF Truthy(p)
        THEN IsSubstring(p, normalize_text(acc.Payors_Funded_Text__c))
        ELSE FALSE

\* line 134: "Assignment" in Type
has_valid_opportunity(acc) ==
    \E i \in DOMAIN acc.Opportunities :
        acc.Opportunities[i].Type \in {"Assignment", "Re-Assignment"}

IsFunded(o) == o.Status_of_Deal__c = "Funded"

\* Variant: the last funded opportunity instead of the first
FundedIndex_Last(opportunities) ==
    IF \E i \in DOMAIN opportunities : IsFunded(opportunities[i])
    THEN CHOOSE i \in DOMAIN opportunities :
            /\ IsFunded(opportunities[i])
            /\ \A j \in (i + 1)..Len(opportunities) : ~IsFunded(opportunities[j])
    ELSE 0

\* line 139: next((o for o in opportunities if ... == "Funded"), None), as the
\* index of that opportunity, 0 for None
FundedIndex(opportunities) ==
    IF \E i \in DOMAIN opportunities : IsFunded(opportunities[i])
    THEN CHOOSE i \in DOMAIN opportunities :
            /\ IsFunded(opportunities[i])
            /\ \A j \in 1..(i - 1) : ~IsFunded(opportunities[j])
    ELSE 0

HasContactData(c) == Truthy(c.Email) \/ Truthy(c.MobilePhone)

\* line 144: the first contact with an email or a phone, 0 for {}
PrimaryIndex(contacts) ==
    IF \E i \in DOMAIN contacts : HasContactData(contacts[i])
    THEN CHOOSE i \in DOMAIN contacts :
            /\ HasContactData(contacts[i])
            /\ \A j \in 1..(i - 1) : ~HasContactData(contacts[j])
    ELSE 0

\* lines 136-153: the fields the loop body writes into acc
Scored(acc, input_name, input_email, input_cell, input_partner) ==
    LET f == FundedIndex(acc.Opportunities)
        c == PrimaryIndex(acc.Contacts)
    IN  [Id |-> acc.Id,
         Name |-> acc.Name,
         Payors_Funded_Text__c |-> acc.Payors_Funded_Text__c,
         Marketing_Status__pc |-> acc.Marketing_Status__pc,
         Contacts |-> acc.Contacts,
         Opportunities |-> acc.Opportunities,
         Delinquency |-> IF acc.Marketing_Status__pc = "DNM - Delinquency"
                         THEN 1 ELSE 0,
         Best_Deal_Id |-> IF f # 0 THEN acc.Opportunities[f].Id ELSE None,
         Effective_Date |-> IF f # 0 THEN acc.Opportunities[f].Funding_Date__c
                            ELSE None,
         Active |-> f # 0,
         Email |-> IF c # 0 THEN acc.Contacts[c].Email ELSE NoText,
         MobilePhone |-> IF c # 0 THEN acc.Contacts[c].MobilePhone ELSE NoText,
         Matched_Name |-> name_match(acc, input_name),
         Matched_Email |-> email_match(acc, input_email),
         Matched_Cell |-> cell_match(acc, input_cell),
         Matched_Partner |-> partner_match(acc, input_partner),
         Has_Valid_Opportunity |-> has_valid_opportunity(acc)]

\* line 148
Retained(acc, input_name, input_email, input_cell) ==
    \/ name_match(acc, input_name)
    \/ email_match(acc, input_email)
    \/ cell_match(acc, input_cell)

RECURSIVE filter_accounts_by_inputs(_, _, _, _, _)
filter_accounts_by_inputs(accs, input_name, input_email, input_cell, input_partner) ==
    IF accs = <<>> THEN <<>>
    ELSE (IF Retained(Head(accs), input_name, input_email, input_cell)
          THEN <<Scored(Head(accs), input_name, input_email, input_cell,
                        input_partner)>>
          ELSE <<>>)
         \o filter_accounts_by_inputs(Tail(accs), input_name, input_email,
                                      input_cell, input_partner)

-----------------------------------------------------------------------------
(* get_royalty_advance_status: the response list *)

NanText == <<"n", "a", "n">>

\* x or "nan"
OrNan(x) == IF x = None \/ x = "" THEN "nan" ELSE x

\* main.py lines 162-178
NotFoundResponse(d) ==
    [status |-> "not-found", active |-> FALSE, fullname_match |-> FALSE,
     email_match |-> FALSE, cell_number_match |-> FALSE,
     partner_match |-> FALSE, deal_id |-> "nan",
     source_system |-> "Salesforce", effective_date |-> "nan",
     user_id |-> d.user_id, full_name |-> NanText, email_address |-> NoText,
     cell_number |-> NoText, partner_name |-> NoText,
     delinquency_flag |-> FALSE]

\* main.py lines 182-198
SuccessResponse(match) ==
    [status |-> "success", active |-> match.Active,
     fullname_match |-> match.Matched_Name,
     email_match |-> match.Matched_Email,
     cell_number_match |-> match.Matched_Cell,
     partner_match |-> match.Matched_Partner,
     deal_id |-> OrNan(match.Best_Deal_Id),
     source_system |-> "Salesforce",
     effective_date |-> OrNan(match.Effective_Date),
     user_id |-> match.Id, full_name |-> match.Name,
     email_address |-> match.Email, cell_number |-> match.MobilePhone,
     partner_name |-> match.Payors_Funded_Text__c,
     delinquency_flag |-> match.Delinquency = 1]

\* Variant: no synthetic result when nothing matched
BuildResponses_NoSentinel(matched_accounts, d) ==
    [i \in 1..Len(matched_accounts) |-> SuccessResponse(matched_accounts[i])]

\* main.py lines 161-201
BuildResponses(matched_accounts, d) ==
    IF matched_accounts = <<>> THEN <<NotFoundResponse(d)>>
    ELSE [i \in 1..Len(matched_accounts) |-> SuccessResponse(matched_accounts[i])]

-----------------------------------------------------------------------------
(* The active-deal handler *)

NoResult == [http |-> 0, body |-> <<>>]

InitDeal ==
    /\ pc = "start"
    /\ access_key \in {API_KEY, "bad"}
    /\ data \in DealStatusInput
    /\ queries = <<>>
    /\ qi = 1
    /\ asked = <<>>
    /\ hits = 0
    /\ seen = <<>>
    /\ got = <<>>
    /\ alts = {}
    /\ accounts = <<>>
    /\ enriched = <<>>
    /\ matched = <<>>
    /\ result = NoResult
    /\ apc = "idle"
    /\ areq = <<>>
    /\ aloc = <<>>
    /\ aresult = <<>>

\* main.py line 140 and lines 26-28: verify_key
VerifyKey ==
    /\ pc = "start"
    /\ IF access_key # API_KEY
       THEN /\ pc' = "done"
            /\ result' = [http |-> 403, body |-> <<>>]
       ELSE /\ pc' = "token"
            /\ UNCHANGED result
    /\ UNCHANGED advVars
    /\ UNCHANGED <<access_key, data, queries, qi, asked, hits, seen, got, alts,
                   accounts, enriched, matched>>

\* main.py line 142 and salesforce_auth.py lines 37-41: the token request
\* succeeds or raises; then search_candidate_accounts lines 54-63
GetToken ==
    /\ pc = "token"
    /\ \E token_ok \in BOOLEAN :
          IF token_ok
          THEN /\ pc' = "search"
               /\ queries' = BuildQueries(data.full_name, data.email_address,
                                          data.cell_number)
               /\ UNCHANGED result
          ELSE /\ pc' = "done"
               /\ result' = [http |-> 500, body |-> <<>>]
               /\ UNCHANGED queries
    /\ UNCHANGED advVars
    /\ UNCHANGED <<access_key, data, qi, asked, hits, seen, got, alts,
                   accounts, enriched, matched>>

\* salesforce_queries.py lines 65-76: one iteration of the search loop
SearchStep ==
    /\ pc = "search"
    /\ qi <= Len(queries)
    /\ \E r \in SearchResponses :
          /\ accounts' = ProcessResponse(accounts, r)
          /\ qi' = NextQuery(qi, Len(queries), r)
          /\ seen' = Record(seen, r)
          /\ got' = Append(got, Contribution(r))
          /\ hits' = hits + Cardinality({ i \in DOMAIN r.records :
                                            r.records[i].Id # None })
          /\ asked' = [c \in DOMAIN asked \cup {queries[qi].channel} |->
                          IF c = queries[qi].channel THEN r.status ELSE asked[c]]
    /\ UNCHANGED advVars
    /\ UNCHANGED <<pc, access_key, data, queries, alts, enriched, matched,
                   result>>

\* The lists lines 78-82 can build: for each stub in insertion order the
\* detail query of enrich_account_data (lines 88-100) returns a row, which is
\* appended, or nothing, which is skipped
RECURSIVE EnrichedLists(_)
EnrichedLists(accs) ==
    IF accs = <<>> THEN {<<>>}
    ELSE { h \o t :
             h \in {<<>>} \cup { <<row>> : row \in DetailRows(Head(accs).Id) },
             t \in EnrichedLists(Tail(accs)) }

\* salesforce_queries.py line 65: the search loop is exhausted; what the
\* histories of the loop recorded is summed up in alts
EndSearch ==
    /\ pc = "search"
    /\ qi > Len(queries)
    /\ alts' = { IdOrder(Replay(got, order, Len(got))) :
                   order \in ChannelOrders(got) }
    /\ pc' = "enrich"
    /\ asked' = <<>>
    /\ hits' = 0
    /\ seen' = <<>>
    /\ got' = <<>>
    /\ UNCHANGED advVars
    /\ UNCHANGED <<access_key, data, queries, qi, accounts, enriched, matched,
                   result>>

\* salesforce_queries.py lines 78-84: the enrichment loop and the return of
\* search_candidate_accounts, whose locals go out of scope
EnrichAll ==
    /\ pc = "enrich"
    /\ enriched' \in EnrichedLists(accounts)
    /\ pc' = "filter"
    /\ queries' = <<>>
    /\ qi' = 1
    /\ accounts' = <<>>
    /\ UNCHANGED advVars
    /\ UNCHANGED <<access_key, data, asked, hits, seen, got, alts, matched,
                   result>>

\* main.py lines 153-201
Respond ==
    /\ pc = "filter"
    /\ matched' = filter_accounts_by_inputs(enriched, data.full_name,
                      data.email_address, data.cell_number, data.partner_name)
    /\ result' = [http |-> 200, body |-> BuildResponses(matched', data)]
    /\ pc' = "done"
    /\ UNCHANGED advVars
    /\ UNCHANGED <<access_key, data, queries, qi, asked, hits, seen, got, alts,
                   accounts, enriched>>

NextDeal ==
    \/ VerifyKey
    \/ GetToken
    \/ SearchStep
    \/ EndSearch
    \/ EnrichAll
    \/ Respond

Spec == InitDeal /\ [][NextDeal]_vars

-----------------------------------------------------------------------------
(* Numbers.  A float is modelled as the exact rational [n, d] it stands for,
   d > 0, in lowest terms; the representation error of a double is not
   modelled.  Money is counted in thousandths of a currency unit. *)

Abs(x) == IF x < 0 THEN -x ELSE x

Min(a, b) == IF a <= b THEN a ELSE b

RECURSIVE GCD(_, _)
GCD(a, b) == IF b = 0 THEN a ELSE GCD(b, a % b)

Rat(n, d) ==
    LET g == GCD(Abs(n), d) IN [n |-> n \div g, d |-> d \div g]

RAdd(a, b) ==
    LET l == (a.d \div GCD(a.d, b.d)) * b.d
    IN  Rat(a.n * (l \div a.d) + b.n * (l \div b.d), l)

RMul(a, b) == Rat((a.n \div GCD(Abs(a.n), b.d)) * (b.n \div GCD(Abs(b.n), a.d)),
                  (a.d \div GCD(Abs(b.n), a.d)) * (b.d \div GCD(Abs(a.n), b.d)))

RDiv(a, b) == RMul(a, [n |-> b.d, d |-> b.n])

RSub(a, b) == RAdd(a, [n |-> -b.n, d |-> b.d])

RECURSIVE RPow(_, _)
RPow(a, k) == IF k = 0 THEN Rat(1, 1) ELSE RMul(a, RPow(a, k - 1))

RGe(a, b) == a.n * b.d >= b.n * a.d

\* int(x) for x >= 0
RFloor(a) == a.n \div a.d

\* round(x, 2) of an amount x in thousandths, as hundredths: to the nearest,
\* a tie to the even neighbour
Round2(a) ==
    LET q == a.n \div (10 * a.d)
        r == Rat(a.n - q * 10 * a.d, 10 * a.d)
    IN  IF RGe(r, Rat(1, 2)) /\ ~(r = Rat(1, 2) /\ q % 2 = 0) THEN q + 1 ELSE q

Thousandths(units) == 1000 * units

-----------------------------------------------------------------------------
(* Dates *)

Date(y, m, d) == [y |-> y, m |-> m, d |-> d]

IsLeap(y) == (y % 4 = 0 /\ y % 100 # 0) \/ y % 400 = 0

DaysIn(y, m) ==
    CASE m \in {4, 6, 9, 11} -> 30
      [] m = 2 -> IF IsLeap(y) THEN 29 ELSE 28
      [] OTHER -> 31

DateLt(a, b) ==
    \/ a.y < b.y
    \/ a.y = b.y /\ a.m < b.m
    \/ a.y = b.y /\ a.m = b.m /\ a.d < b.d

\* date + relativedelta(months=k), date - pd.DateOffset(months=-k): the month
\* moves, the day is cut to the last day of the month reached
AddMonths(dt, k) ==
    LET t == dt.y * 12 + (dt.m - 1) + k
        y == t \div 12
        m == (t % 12) + 1
    IN  Date(y, m, Min(dt.d, DaysIn(y, m)))

NextDay(dt) ==
    IF dt.d < DaysIn(dt.y, dt.m) THEN Date(dt.y, dt.m, dt.d + 1)
    ELSE IF dt.m < 12 THEN Date(dt.y, dt.m + 1, 1)
    ELSE Date(dt.y + 1, 1, 1)

PrevDay(dt) ==
    IF dt.d > 1 THEN Date(dt.y, dt.m, dt.d - 1)
    ELSE IF dt.m > 1 THEN Date(dt.y, dt.m - 1, DaysIn(dt.y, dt.m - 1))
    ELSE Date(dt.y - 1, 12, 31)

RECURSIVE AddDays(_, _)
AddDays(dt, k) == IF k = 0 THEN dt ELSE AddDays(NextDay(dt), k - 1)

-----------------------------------------------------------------------------
(* The funding-config store and get_funding_config *)

Config(cushion, decline_rate, term_years, frequency, discount_rate) ==
    [cushion |-> cushion, decline_rate |-> decline_rate,
     term_years |-> term_years, frequency |-> frequency,
     discount_rate |-> discount_rate]

\* PartnerDetail joined with FundingConfig
FundingStore ==
    { [partnerName |-> <<"c", "q">>,
       config |-> Config(Rat(0, 1), Rat(0, 1), Rat(1, 1), "Annually", Rat(0, 1))],
      [partnerName |-> <<"C", "q", " ", "m">>,
       config |-> Config(Rat(1, 10), Rat(0, 1), Rat(1, 1), "Monthly", Rat(0, 1))],
      [partnerName |-> <<"a", "b">>,
       config |-> Config(Rat(0, 1), Rat(1, 2), Rat(3, 2), "Quarterly", Rat(0, 1))],
      [partnerName |-> <<"b", "a">>,
       config |-> Config(Rat(0, 1), Rat(0, 1), Rat(2, 1), "Annually", Rat(1, 4))],
      [partnerName |-> <<"o">>,
       config |-> Config(Rat(1, 2), Rat(0, 1), Rat(1, 6), "Weekly", Rat(0, 1))] }

\* advance_calculator.py line 21: LOWER(partnerName) LIKE '%' + LOWER(?) + '%'
MatchingPartners(partner_name) ==
    { row \in FundingStore :
        IsSubstring(lower(partner_name), lower(row.partnerName)) }

\* advance_calculator.py lines 17-23: TOP 1 ... ORDER BY LEN(partnerName) ASC;
\* the rows the query can return (none, or one of the shortest matches)
get_funding_config(partner_name) ==
    { row \in MatchingPartners(partner_name) :
        \A other \in MatchingPartners(partner_name) :
            Len(row.partnerName) <= Len(other.partnerName) }

-----------------------------------------------------------------------------
(* calculate_advance *)

\* advance_calculator.py lines 41-47, main.py lines 276-281
PeriodsPerYear(frequency) ==
    CASE frequency = "Monthly" -> 12
      [] frequency = "Quarterly" -> 4
      [] frequency = "Annually" -> 1
      [] OTHER -> 12

\* advance_calculator.py line 48, main.py line 282
TotalPeriods(cfg) ==
    RFloor(RMul(cfg.term_years, Rat(PeriodsPerYear(cfg.frequency), 1)))

\* advance_calculator.py line 53: the cash flow of period i
CashFlow(periodic_payment, decline_rate, periodic_discount_rate, i) ==
    RDiv(RMul(periodic_payment, RPow(RSub(Rat(1, 1), decline_rate), i)),
         RPow(RAdd(Rat(1, 1), periodic_discount_rate), i + 1))

RECURSIVE SumCashFlows(_, _, _, _)
SumCashFlows(periodic_payment, decline_rate, periodic_discount_rate, k) ==
    IF k = 0 THEN Rat(0, 1)
    ELSE RAdd(SumCashFlows(periodic_payment, decline_rate,
                           periodic_discount_rate, k - 1),
              CashFlow(periodic_payment, decline_rate, periodic_discount_rate,
                       k - 1))

\* advance_calculator.py lines 34-57
calculate_advance(trended_annual, cfg) ==
    LET periods_per_year == Rat(PeriodsPerYear(cfg.frequency), 1)
        periodic_discount_rate == RDiv(cfg.discount_rate, periods_per_year)
        periodic_payment ==
            RDiv(RMul(Rat(trended_annual, 1), RSub(Rat(1, 1), cfg.cushion)),
                 periods_per_year)
    IN  SumCashFlows(periodic_payment, cfg.decline_rate,
                     periodic_discount_rate, TotalPeriods(cfg))


-----------------------------------------------------------------------------
(* The advance-amount requests *)

ASSUMED_FUND_OFFSET_DAYS == 15

\* earning_amount cells: a number, in thousandths, or text that is no number
Amount(milli) == [numeric |-> TRUE, milli |-> milli]
NotANumber == [numeric |-> FALSE, milli |-> 0]

AmountPool == { Amount(0), Amount(250000), Amount(999996), NotANumber }

\* date cells: a calendar date, or text pd.to_datetime cannot parse
DateCell(y, m, d) == [valid |-> TRUE, date |-> Date(y, m, d)]
NotADate == [valid |-> FALSE, date |-> Date(0, 1, 1)]

DatePool ==
    { DateCell(2024, 8, 31), DateCell(2024, 3, 1), DateCell(2024, 2, 29),
      DateCell(2023, 9, 15), DateCell(2023, 8, 31), NotADate }

PartnerNamePool == { <<"C", "Q">>, <<"q", " ">>, <<"a">>, <<"o">>, <<"z">> }

RowPool ==
    [artist_id : {"art1"}, currency : {"USD_840"},
     earning_amount : AmountPool, date : DatePool]

\* An upload: bytes that are no CSV, a CSV without the required columns, or
\* a CSV with the required columns and the rows given; partner_name is the
\* value of that column in the first row
FilePool ==
    { [is_csv |-> FALSE, has_columns |-> FALSE, partner_name |-> <<>>,
       rows |-> <<>>],
      [is_csv |-> TRUE, has_columns |-> FALSE, partner_name |-> <<>>,
       rows |-> <<>>] }
    \cup [is_csv : {TRUE}, has_columns : {TRUE},
          partner_name : PartnerNamePool, rows : SeqsUpTo(RowPool, MaxRows)]

TodayPool == { Date(2024, 1, 16), Date(2024, 12, 20) }

-----------------------------------------------------------------------------
(* calculate_advance_from_earnings_csv: the aggregation, main.py 231-269 *)

AllNumeric(rows) == \A i \in DOMAIN rows : rows[i].earning_amount.numeric

AllDates(rows) == \A i \in DOMAIN rows : rows[i].date.valid

\* line 233: df.sort_values("date")
RECURSIVE InsertByDate(_, _)
InsertByDate(sorted, row) ==
    IF sorted = <<>> THEN <<row>>
    ELSE IF DateLt(row.date.date, Head(sorted).date.date)
         THEN <<row>> \o sorted
         ELSE <<Head(sorted)>> \o InsertByDate(Tail(sorted), row)

RECURSIVE sort_values(_)
sort_values(rows) ==
    IF rows = <<>> THEN <<>>
    ELSE InsertByDate(sort_values(SubSeq(rows, 1, Len(rows) - 1)),
                      rows[Len(rows)])

\* line 235: df["date"].max()
latest_date(df) ==
    df[CHOOSE i \in DOMAIN df :
          \A j \in DOMAIN df : ~DateLt(df[i].date.date, df[j].date.date)].date.date

\* Variant: >= instead of >
InWindow_Inclusive(row_date, latest, months) ==
    ~DateLt(row_date, AddMonths(latest, -months))

InWindow(row_date, latest, months) ==
    DateLt(AddMonths(latest, -months), row_date)

\* lines 236-237: df[df["date"] > latest_date - pd.DateOffset(months=months)]
Window(df, months) ==
    LET latest == latest_date(df)
        Keep(row) == InWindow(row.date.date, latest, months)
    IN  SelectSeq(df, Keep)

\* dt.to_period("M")
Month(row) == <<row.date.date.y, row.date.date.m>>

RECURSIVE SumAmounts(_)
SumAmounts(rows) ==
    IF rows = <<>> THEN 0
    ELSE Head(rows).earning_amount.milli + SumAmounts(Tail(rows))

RECURSIVE SumOver(_, _)
SumOver(months, df_subset) ==
    IF months = {} THEN 0
    ELSE LET mo == CHOOSE x \in months : TRUE
             InMonth(row) == Month(row) = mo
         IN  SumAmounts(SelectSeq(df_subset, InMonth))
                 + SumOver(months \ {mo}, df_subset)

\* lines 242-248: group by month, sum each month, sum the monthly totals
total_monthly_sum(df_subset) ==
    IF df_subset = <<>> THEN 0
    ELSE SumOver({ Month(df_subset[i]) : i \in DOMAIN df_subset }, df_subset)

\* line 269
Trended(total_12m, total_6m) == Min(total_12m, total_6m * 2)

\* lines 272-274
FirstPaymentDate(today) ==
    LET assumed_fund_date == AddDays(today, ASSUMED_FUND_OFFSET_DAYS)
    IN  AddMonths(Date(assumed_fund_date.y, assumed_fund_date.m, 1), 1)

\* line 284
LastPaymentDate(first, cfg) == PrevDay(AddMonths(first, TotalPeriods(cfg)))

-----------------------------------------------------------------------------
(* The advance-amount handler *)

NoLocals ==
    [partner_name |-> <<>>, config |-> Config(Rat(0, 1), Rat(0, 1), Rat(0, 1),
                                               "", Rat(0, 1)),
     total_6m |-> 0, total_12m |-> 0, trended |-> 0,
     first_assigned_payment_date |-> Date(0, 1, 1),
     last_assigned_payment_date |-> Date(0, 1, 1)]

NoPayload ==
    [artist_id |-> "", partner_name |-> <<>>, projected_advance |-> 0,
     currency |-> "", qualifies |-> FALSE, trended_annual |-> 0,
     first_assigned_payment_date |-> Date(0, 1, 1),
     last_assigned_payment_date |-> Date(0, 1, 1)]

Failure(http, detail) == [http |-> http, detail |-> detail, body |-> NoPayload]

InitAdvance ==
    /\ apc = "start"
    /\ areq \in [access_key : {API_KEY, "bad"}, file : FilePool,
                 today : TodayPool]
    /\ aloc = NoLocals
    /\ aresult = [http |-> 0, detail |-> "", body |-> NoPayload]
    /\ pc = "idle"
    /\ access_key = API_KEY
    /\ data = <<>>
    /\ queries = <<>>
    /\ qi = 1
    /\ asked = <<>>
    /\ hits = 0
    /\ seen = <<>>
    /\ got = <<>>
    /\ alts = {}
    /\ accounts = <<>>
    /\ enriched = <<>>
    /\ matched = <<>>
    /\ result = NoResult

\* main.py lines 209-226: the key, the upload and its first row
ReadUpload ==
    /\ apc = "start"
    /\ IF areq.access_key # API_KEY
       THEN /\ aresult' = Failure(403, "Invalid API Key")
            /\ apc' = "done"
            /\ UNCHANGED aloc
       ELSE IF ~areq.file.is_csv
       THEN /\ aresult' = Failure(400, "File must be a valid CSV")
            /\ apc' = "done"
            /\ UNCHANGED aloc
       ELSE IF ~areq.file.has_columns
       THEN /\ aresult' = Failure(400, "CSV is missing required columns")
            /\ apc' = "done"
            /\ UNCHANGED aloc
       ELSE IF areq.file.rows = <<>>
       THEN /\ aresult' = Failure(400, "CSV is empty")
            /\ apc' = "done"
            /\ UNCHANGED aloc
       ELSE /\ aloc' = [aloc EXCEPT !.partner_name = areq.file.partner_name]
            /\ apc' = "config"
            /\ UNCHANGED aresult
    /\ UNCHANGED areq
    /\ UNCHANGED dealVars

\* The outcome of lines 231-288 when they raise: a ValueError is answered
\* with 404 (lines 290-291), any other exception with 400 (lines 292-293)
AggregationFailure(rows) ==
    IF ~AllNumeric(rows)
    THEN Failure(404, "could not convert string to float")
    ELSE IF ~AllDates(rows)
    THEN Failure(404, "Unknown datetime string format")
    ELSE Failure(400, "Data processing error")

\* lines 239-240: both windows empty
NotEnoughData(df) == Window(df, 6) = <<>> /\ Window(df, 12) = <<>>

\* lines 231-288 when nothing raises: the locals computed
Aggregated(locals, cfg, rows, today) ==
    LET df == sort_values(rows)
        total_6m == total_monthly_sum(Window(df, 6))
        total_12m == total_monthly_sum(Window(df, 12))
        first == FirstPaymentDate(today)
    IN  [locals EXCEPT
            !.config = cfg,
            !.total_6m = total_6m,
            !.total_12m = total_12m,
            !.trended = Trended(total_12m, total_6m),
            !.first_assigned_payment_date = first,
            !.last_assigned_payment_date = LastPaymentDate(first, cfg)]

\* main.py lines 228-293: the funding-config query (it returns a row, returns
\* none, or the store cannot be reached) and the aggregation
Aggregate ==
    /\ apc = "config"
    /\ \/ /\ get_funding_config(aloc.partner_name) = {}
          /\ aresult' = Failure(404, "No config found for partner")
          /\ apc' = "done"
          /\ UNCHANGED aloc
       \/ /\ aresult' = Failure(400, "Data processing error")
          /\ apc' = "done"
          /\ UNCHANGED aloc
       \/ \E row \in get_funding_config(aloc.partner_name) :
             IF AllNumeric(areq.file.rows) /\ AllDates(areq.file.rows)
                /\ ~NotEnoughData(sort_values(areq.file.rows))
             THEN /\ aloc' = Aggregated(aloc, row.config, areq.file.rows,
                                        areq.today)
                  /\ apc' = "calculate"
                  /\ UNCHANGED aresult
             ELSE /\ aresult' = AggregationFailure(areq.file.rows)
                  /\ apc' = "done"
                  /\ UNCHANGED aloc
    /\ UNCHANGED areq
    /\ UNCHANGED dealVars

\* main.py line 302
Qualifies(projected_advance) == RGe(projected_advance, Rat(Thousandths(1000), 1))

\* main.py lines 304-314
Payload(file, locals, projected_advance) ==
    [artist_id |-> file.rows[1].artist_id,
     partner_name |-> locals.partner_name,
     projected_advance |-> Round2(projected_advance),
     currency |-> file.rows[1].currency,
     qualifies |-> Qualifies(projected_advance),
     trended_annual |-> Round2(Rat(locals.trended, 1)),
     first_assigned_payment_date |-> locals.first_assigned_payment_date,
     last_assigned_payment_date |-> locals.last_assigned_payment_date]

\* main.py lines 295-314
Calculate ==
    /\ apc = "calculate"
    /\ aresult' = [http |-> 200, detail |-> "",
                   body |-> Payload(areq.file, aloc,
                                    calculate_advance(aloc.trended, aloc.config))]
    /\ apc' = "done"
    /\ UNCHANGED <<areq, aloc>>
    /\ UNCHANGED dealVars

NextAdvance ==
    \/ ReadUpload
    \/ Aggregate
    \/ Calculate

SpecAdvance == InitAdvance /\ [][NextAdvance]_vars

-----------------------------------------------------------------------------
(* Properties of the active-deal handler *)

Responded == pc = "done" /\ result.http = 200

\* Section 4.8 of the specification: emailMatch
SpecEmailMatch(acc, email) ==
    /\ Truthy(email)
    /\ \E i \in DOMAIN acc.Contacts :
          IsSubstring(lower(email), lower(OrEmpty(acc.Contacts[i].Email)))

\* Section 4.8 of the specification: nameMatch (an empty normalized name
\* matches nothing, section 4.1)
SpecNameMatch(acc, name) ==
    /\ normalize_text(name) # <<>>
    /\ IsSubstring(normalize_text(name), normalize_text(acc.Name))

\* Section 4.8 of the specification: cellMatch, read as the code reads it for
\* an absent phone on either side
SpecCellMatch(acc, cell) ==
    \E i \in DOMAIN acc.Contacts :
        strip(OrEmpty(acc.Contacts[i].MobilePhone)) = strip(OrEmpty(cell))

SpecRetained(acc) ==
    \/ SpecNameMatch(acc, data.full_name)
    \/ SpecEmailMatch(acc, data.email_address)
    \/ SpecCellMatch(acc, data.cell_number)

\* C1: every account the filter returns reports Matched_Email = FALSE when the
\* caller gave no email (None or ""), and otherwise Matched_Email = TRUE iff
\* the lower-cased caller email is a substring of some contact's lower-cased
\* email.
C1_EmailMatchAsSpecified ==
    Responded =>
        \A i \in DOMAIN matched :
            matched[i].Matched_Email
                = SpecEmailMatch(matched[i], data.email_address)

\* C2: the filter returns exactly the candidates, in order, for which one of
\* nameMatch, emailMatch, cellMatch of section 4.8 is true.
C2_RetainedIffSpecFlag ==
    Responded =>
        [i \in DOMAIN matched |-> matched[i].Id]
            = [i \in DOMAIN SelectSeq(enriched, SpecRetained) |->
                  SelectSeq(enriched, SpecRetained)[i].Id]

CarriesPhone(acc, cell) ==
    \E i \in DOMAIN acc.Contacts :
        Truthy(acc.Contacts[i].MobilePhone)
            /\ strip(acc.Contacts[i].MobilePhone) = strip(cell)

\* C3: for a query whose only evidence is a phone (no email, name not a
\* substring of the account name), a candidate with a contact carrying exactly
\* the trimmed phone is returned with Matched_Cell = TRUE and Matched_Name =
\* Matched_Email = FALSE, and a candidate without such a contact has no cell
\* match.
C3_PhoneOnlyMatch ==
    (Responded /\ ~Truthy(data.email_address) /\ Truthy(data.cell_number)
        /\ strip(data.cell_number) # <<>>) =>
        \A k \in DOMAIN enriched :
            ~SpecNameMatch(enriched[k], data.full_name) =>
                IF CarriesPhone(enriched[k], data.cell_number)
                THEN \E i \in DOMAIN matched :
                        /\ matched[i].Id = enriched[k].Id
                        /\ matched[i].Matched_Cell
                        /\ ~matched[i].Matched_Name
                        /\ ~matched[i].Matched_Email
                ELSE \A i \in DOMAIN matched :
                        matched[i].Id = enriched[k].Id => ~matched[i].Matched_Cell

RetainedByData(acc) ==
    Retained(acc, data.full_name, data.email_address, data.cell_number)

\* C4: a returned response list is never empty; with no retained candidate it
\* is exactly one "not-found" result (active and the four match flags false,
\* deal_id, effective_date and full_name "nan", user_id the caller's), and
\* otherwise it holds one "success" result per retained candidate, in the
\* order the candidates were received.
C4_ResponseList ==
    Responded =>
        LET kept == SelectSeq(enriched, RetainedByData)
            body == result.body
        IN  /\ body # <<>>
            /\ kept = <<>> =>
                  /\ Len(body) = 1
                  /\ body[1].status = "not-found"
                  /\ ~body[1].active
                  /\ ~body[1].fullname_match
                  /\ ~body[1].email_match
                  /\ ~body[1].cell_number_match
                  /\ ~body[1].partner_match
                  /\ body[1].deal_id = "nan"
                  /\ body[1].effective_date = "nan"
                  /\ body[1].full_name = NanText
                  /\ body[1].user_id = data.user_id
            /\ kept # <<>> =>
                  /\ Len(body) = Len(kept)
                  /\ \A i \in DOMAIN body :
                        /\ body[i].status = "success"
                        /\ body[i].user_id = kept[i].Id
                        /\ body[i].full_name = kept[i].Name

C4_Witness ==
    /\ Responded
    /\ Len(enriched) = 2
    /\ result.body[1].status = "not-found"

C4_WitnessSuccess ==
    /\ Responded
    /\ Len(enriched) = 2
    /\ Len(result.body) = 2
    /\ result.body[1].user_id = "a2"

SearchDone == pc = "search" /\ qi > Len(queries)

\* C5: throughout the search every identifier occurs at most once in the
\* merged candidates, the identifiers merged are exactly those a 200-response
\* has returned, and the stub kept for each is the first one received;
\* deduplicate_accounts discards the repeats of a list merged with itself.
C5_MergedOncePerId ==
    pc = "search" =>
        /\ \A i, j \in DOMAIN accounts :
              accounts[i].Id = accounts[j].Id => i = j
        /\ { accounts[i].Id : i \in DOMAIN accounts } = DOMAIN seen
        /\ \A i \in DOMAIN accounts : accounts[i] = seen[accounts[i].Id]
        /\ deduplicate_accounts(<<accounts, accounts>>) = accounts

C5_Witness ==
    /\ SearchDone
    /\ Len(accounts) = 2
    /\ hits >= 4
    /\ accounts[2].Name = <<"A", "l">>

\* C6: when the search loop ends every channel of the request has been
\* queried, whichever of them failed, no outcome has been raised, and every
\* identifier a 200-response returned is among the merged candidates.
C6_FailedChannelSkipped ==
    SearchDone =>
        /\ DOMAIN asked = { queries[i].channel : i \in DOMAIN queries }
        /\ DOMAIN seen \subseteq { accounts[i].Id : i \in DOMAIN accounts }
        /\ result = NoResult

C6_Witness ==
    /\ SearchDone
    /\ Len(queries) = 3
    /\ asked["EMAIL"] = 500
    /\ asked["PHONE"] = 200
    /\ asked["NAME"] = 500
    /\ Len(accounts) = 2

Funded(opps) == { k \in DOMAIN opps : opps[k].Status_of_Deal__c = "Funded" }

\* C10: for every returned candidate, Active holds iff one of its
\* opportunities has status exactly "Funded"; when active, Best_Deal_Id and
\* Effective_Date are the Id and funding date of the first such opportunity;
\* when not active both are None and the response reports "nan" for deal_id
\* and effective_date.
C10_FirstFundedWins ==
    Responded =>
        \A i \in DOMAIN matched :
            LET m == matched[i]
                opps == m.Opportunities
                funded == Funded(opps)
            IN  /\ m.Active = (funded # {})
                /\ result.body[i].active = m.Active
                /\ m.Active =>
                      \E k \in funded :
                          /\ \A j \in funded : k <= j
                          /\ m.Best_Deal_Id = opps[k].Id
                          /\ m.Effective_Date = opps[k].Funding_Date__c
                          /\ result.body[i].deal_id = opps[k].Id
                          /\ result.body[i].effective_date = opps[k].Funding_Date__c
                /\ ~m.Active =>
                      /\ m.Best_Deal_Id = None
                      /\ m.Effective_Date = None
                      /\ result.body[i].deal_id = "nan"
                      /\ result.body[i].effective_date = "nan"

C10_Witness ==
    /\ Responded
    /\ \E i \in DOMAIN matched :
          /\ Len(matched[i].Opportunities) = 2
          /\ Cardinality(Funded(matched[i].Opportunities)) = 2
          /\ matched[i].Opportunities[1].Id # matched[i].Opportunities[2].Id
          /\ matched[i].Best_Deal_Id = "o2"

C10_WitnessInactive ==
    /\ Responded
    /\ \E i \in DOMAIN matched :
          /\ matched[i].Opportunities # <<>>
          /\ ~matched[i].Active
          /\ result.body[i].deal_id = "nan"

Elements(list) == { list[i] : i \in DOMAIN list }

\* The list lines 78-82 build for a sequence of identifiers when the detail
\* queries answer as they answered this request: the row received for an
\* identifier, nothing otherwise
RECURSIVE EnrichedAgain(_)
EnrichedAgain(ids) ==
    IF ids = <<>> THEN <<>>
    ELSE (IF \E i \in DOMAIN enriched : enriched[i].Id = Head(ids)
          THEN <<enriched[CHOOSE i \in DOMAIN enriched :
                              enriched[i].Id = Head(ids)]>>
          ELSE <<>>)
         \o EnrichedAgain(Tail(ids))

AnswerAgain(ids) ==
    BuildResponses(
        filter_accounts_by_inputs(EnrichedAgain(ids), data.full_name,
            data.email_address, data.cell_number, data.partner_name),
        data)

\* C11: processing the channel responses of a request in any other order
\* merges the same set of identifiers as the loop did, and hence, the detail
\* queries answering alike, gives the same set of enriched accounts and the
\* same set of results for the caller; a response and what it contributes on
\* its own merge alike into the dict
C11_ChannelOrderIrrelevant ==
    /\ pc = "search" =>
          \A r \in SearchResponses :
              ProcessResponse(accounts, r)
                  = ProcessResponse(accounts, Contribution(r))
    /\ SearchDone =>
          /\ Replay(got, [i \in DOMAIN got |-> i], Len(got)) = accounts
          /\ \A order \in ChannelOrders(got) :
                Elements(IdOrder(Replay(got, order, Len(got))))
                    = Elements(IdOrder(accounts))
    /\ pc \in {"filter", "done"} =>
          \A ids \in alts : Elements(EnrichedAgain(ids)) = Elements(enriched)
    /\ Responded =>
          \A ids \in alts : Elements(AnswerAgain(ids)) = Elements(result.body)

\* Two channels returned the same two accounts in opposite orders, so that
\* another order of the queries lists the results for the caller in another
\* order
C11_Witness ==
    /\ Responded
    /\ Len(result.body) = 2
    /\ \E ids \in alts :
          /\ AnswerAgain(ids) # result.body
          /\ Elements(AnswerAgain(ids)) = Elements(result.body)

\* The loop ended after three queries, one of which failed while the two
\* others returned the same identifier with different stubs, and another
\* order of the queries keeps another stub or another insertion order
C11_WitnessSearch ==
    /\ SearchDone
    /\ Len(got) = 3
    /\ got[2].status # 200
    /\ got[1].status = 200
    /\ got[3].status = 200
    /\ Elements(IdOrder(got[1].records)) \cap Elements(IdOrder(got[3].records)) # {}
    /\ Cardinality(Elements(IdOrder(accounts))) = 2
    /\ \E order \in ChannelOrders(got) :
          Replay(got, order, Len(got)) # accounts

-----------------------------------------------------------------------------
(* Properties of the advance-amount handler *)

Answered == apc = "done" /\ aresult.http = 200

Hundredths(units) == 100 * units

\* C7: in every successful response, qualifies equals (the projected_advance
\* of that response >= 1000).
C7_QualifiesMatchesPayload ==
    Answered =>
        aresult.body.qualifies
            = (aresult.body.projected_advance >= Hundredths(1000))

UploadedRows == areq.file.rows

LatestUploaded ==
    CHOOSE d \in { UploadedRows[i].date.date : i \in DOMAIN UploadedRows } :
        \A i \in DOMAIN UploadedRows : ~DateLt(d, UploadedRows[i].date.date)

\* the records dated strictly after the latest date minus the months given
Trailing(months) ==
    { i \in DOMAIN UploadedRows :
        DateLt(AddMonths(LatestUploaded, -months), UploadedRows[i].date.date) }

RECURSIVE SumOfRows(_)
SumOfRows(indices) ==
    IF indices = {} THEN 0
    ELSE LET i == CHOOSE x \in indices : TRUE
         IN  UploadedRows[i].earning_amount.milli + SumOfRows(indices \ {i})

\* C8: the trended annual revenue is min(12-month sum, 2 x 6-month sum) over
\* the records dated strictly after the latest date minus 12 and 6 months; it
\* is at most either, and the 6-month window lies within the 12-month window.
C8_TrendedIsMin ==
    (apc = "calculate" \/ Answered) =>
        LET sum12 == SumOfRows(Trailing(12))
            sum6 == SumOfRows(Trailing(6))
        IN  /\ \A i \in DOMAIN UploadedRows :
                  UploadedRows[i].earning_amount.milli >= 0
            /\ aloc.total_12m = sum12
            /\ aloc.total_6m = sum6
            /\ aloc.trended = Min(sum12, 2 * sum6)
            /\ aloc.trended <= sum12
            /\ aloc.trended <= 2 * sum6
            /\ Trailing(6) \subseteq Trailing(12)

C8_Witness ==
    /\ apc = "calculate"
    /\ Len(UploadedRows) = 2
    /\ UploadedRows[1].date.date = AddMonths(LatestUploaded, -6)
    /\ UploadedRows[1].earning_amount.milli > 0
    /\ UploadedRows[2].earning_amount.milli > 0
    /\ aloc.trended = 2 * aloc.total_6m
    /\ aloc.trended < aloc.total_12m

HasNonNumeric ==
    /\ areq.access_key = API_KEY
    /\ areq.file.is_csv
    /\ areq.file.has_columns
    /\ ~AllNumeric(UploadedRows)

\* C9: a ledger with a non-numeric earning_amount is answered with the
\* not-found answer 404 only when no funding config matches the partner name,
\* and with the client error 400 when a funding config matches.
C9_NonNumericIsClientError ==
    (apc = "done" /\ HasNonNumeric) =>
        /\ aresult.http = 404 => MatchingPartners(areq.file.partner_name) = {}
        /\ MatchingPartners(areq.file.partner_name) # {} => aresult.http = 400

====
